---- MODULE Spec2Model ----
(***************************************************************************)
(* Job orchestration and event streaming core of workshop-builder:         *)
(*   server/routers/generate.py   start, cancel, the SSE bridge            *)
(*   server/services/jobs.py      publish_event, set_cancelled, job_dirs   *)
(*   server/services/events.py    JobEmitter                               *)
(*   server/services/crewai_pipeline.py   run_job                          *)
(*   workers/worker.py            run_job_worker                           *)
(*   server/services/local_jobs.py   the in-memory fallback                *)
(* Redis (pub/sub channels, the cancel keys) and the RQ queue are the      *)
(* shared state; each worker and each SSE generator is a process with a    *)
(* program counter.                                                        *)
(***************************************************************************)
EXTENDS Integers, Sequences, FiniteSets, TLC

\* ---------------------------------------------------------------- bounds
\* keep-alive pings one stream emits inside its loop
MaxPings == 1

\* calls of job_dirs in the run of the directory manager
MaxDirCalls == 3

\* calls of LocalJob.publish on one in-memory job
MaxLocalEvents == 4

\* job ids the queue can hand out, and the SSE connections that can be opened
Jobs == {"j1", "j2"}
Streams == {"s1", "s2"}

NONE == "<none>"
EmptyDict == [k \in {} |-> TRUE]

\* ------------------------------------------------------ request payloads
\* project.intent as run_job reads it: outputs and editorialPreset
PdfProject == [outputs |-> <<"pdf">>, editorialPreset |-> NONE]

ProjectChoices ==
  { [outputs |-> << >>, editorialPreset |-> NONE],
    PdfProject,
    [outputs |-> <<"springer", "epub">>, editorialPreset |-> "acm"] }

\* bodies POSTed to /generate/start: with a valid project, without "project",
\* and with a project whose outputs name an unknown format
StartBodies ==
  { [project |-> p] : p \in ProjectChoices }
    \cup { EmptyDict }
    \cup { [project |-> [outputs |-> <<"docx">>, editorialPreset |-> NONE]] }

\* bodies POSTed to /generate/cancel
CancelBodies(JS) ==
  { [job_id |-> j] : j \in JS } \cup { EmptyDict, [job_id |-> ""] }

\* dict.get(key, default)
get(d, k, default) == IF k \in DOMAIN d THEN d[k] ELSE default

\* x in list
InList(x, l) == \E i \in 1..Len(l) : l[i] = x

\* json.dumps / json.loads: the text on the wire is kept apart from the value
json_dumps(x) == [json |-> x]
json_loads(t) == t.json

VARIABLES
  rq,          \* the RQ queue: job ids enqueued and not yet picked by a worker
  project,     \* job id -> the project payload enqueued with it
  pc,          \* job id -> where its worker is in run_job_worker / run_job
  artifacts,   \* job id -> run_job's local list `artifacts`
  files,       \* job id -> file names under <tenant>/<job_id>/artifacts
  dirs,        \* the directories that exist under JOBS_DIR (and JOBS_DIR)
  published,   \* job id -> payloads PUBLISHed on job:<id>:events, in order
  cancelFlag,  \* job id -> the key job:<id>:cancel exists
  seen,        \* job id -> what the checkpoint that observed the flag saw
  failure,     \* job id -> the exception that left run_job_worker, or NONE
  spc,         \* stream -> where its generator is suspended
  sjob,        \* stream -> the job id it subscribed to
  subOpen,     \* stream -> its pubsub object is subscribed and not closed
  inbox,       \* stream -> messages delivered to its connection, unread
  cur,         \* stream -> the envelope whose event line has been yielded
  frames,      \* stream -> the complete frames yielded so far
  sexit,       \* stream -> why its generator ended
  subAt,       \* stream -> how many events its channel had carried when it
               \*           subscribed
  reply,       \* endpoint -> the latest request it served and the response
  dcalls,      \* the calls call_job_dirs has made: arguments and outcome
  ljobs,       \* in-memory fallback: job id -> the LocalJob object
  _jobs,       \* in-memory fallback: the ids registered in local_jobs._jobs
  iters,       \* in-memory fallback: consumer -> its sse_iter generator
  flows        \* job id -> the WorkshopBuildFlow object built for it

\* what the job and stream actions never touch
restVars == << dcalls, ljobs, _jobs, iters, flows >>

vars == << rq, project, pc, artifacts, files, dirs, published, cancelFlag, seen,
           failure, spc, sjob, subOpen, inbox, cur, frames, sexit, subAt, reply,
           restVars >>

jobVars == << rq, project, pc, artifacts, files, dirs, seen, failure >>
streamVars == << spc, sjob, subAt, subOpen, inbox, cur, frames, sexit >>

\* everything but the response handed back to the HTTP client
stateVars == << jobVars, published, cancelFlag, streamVars, restVars >>

\* the broker-backed system: what the in-memory fallback and the directory
\* manager on its own never touch
mainVars == << rq, project, pc, artifacts, files, seen, failure, published,
               cancelFlag, streamVars, reply >>

NoSeen == [at |-> 0, len |-> 0, files |-> {}]
\* no request served yet
NoReply == [request |-> EmptyDict, status |-> 0]

\* in-memory fallback: the ids create_job can draw, the SSE consumers
LocalIds == {"L1"}
Consumers == {"c1", "c2"}

\* a LocalJob as __init__ leaves it (made: the object has been constructed;
\* pubs counts the calls of publish)
NoLocalJob == [made |-> FALSE, queue |-> << >>, done |-> FALSE, error |-> NONE,
               pubs |-> 0]
NoIter == [pc |-> "unused", job |-> NONE, frames |-> << >>]
NoEnvelope == [event |-> NONE, data |-> EmptyDict]

\* WorkshopState(): the defaults of the typed flow state; confidence is kept
\* in hundredths
WorkshopState ==
  [phase |-> "init", outline |-> << >>, confidence |-> 0,
   recommendations |-> << >>, artifacts |-> << >>, errors |-> << >>]

\* no flow object built yet.  pending: the methods whose trigger has fired
\* and that have not run yet; ran: the methods that have run; emitted: the
\* calls made on the emitter handed to the constructor; files: the files
\* written under art_dir
NoFlow ==
  [built |-> FALSE, kicked |-> FALSE, tenant |-> NONE, project |-> EmptyDict,
   art_dir |-> << >>, pending |-> {}, ran |-> {}, inputs |-> EmptyDict,
   state |-> WorkshopState, emitted |-> << >>, files |-> {}]

InitBut(d) ==
  /\ dirs = d
  /\ rq = << >>
  /\ project = [j \in Jobs |-> [outputs |-> << >>, editorialPreset |-> NONE]]
  /\ pc = [j \in Jobs |-> "unissued"]
  /\ artifacts = [j \in Jobs |-> << >>]
  /\ files = [j \in Jobs |-> {}]
  /\ published = [j \in Jobs |-> << >>]
  /\ cancelFlag = [j \in Jobs |-> FALSE]
  /\ seen = [j \in Jobs |-> NoSeen]
  /\ failure = [j \in Jobs |-> NONE]
  /\ spc = [s \in Streams |-> "unused"]
  /\ sjob = [s \in Streams |-> NONE]
  /\ subOpen = [s \in Streams |-> FALSE]
  /\ inbox = [s \in Streams |-> << >>]
  /\ cur = [s \in Streams |-> NoEnvelope]
  /\ frames = [s \in Streams |-> << >>]
  /\ sexit = [s \in Streams |-> NONE]
  /\ subAt = [s \in Streams |-> 0]
  /\ reply = [start |-> NoReply, cancel |-> NoReply]
  /\ dcalls = << >>
  /\ ljobs = [l \in LocalIds |-> NoLocalJob]
  /\ _jobs = {}
  /\ iters = [c \in Consumers |-> NoIter]
  /\ flows = [j \in Jobs |-> NoFlow]

\* nothing on disk yet
Init == InitBut({})

\* ------------------------------------------------------------ event loop
\* The serving process has one event loop.  psub.get_message(timeout=15.0)
\* is a blocking call made on it: while a generator sits in that call no
\* other coroutine of the process runs.
LoopFree == \A t \in Streams : spc[t] # "get_message"

\* ------------------------------------------------------------- event bus
\* jobs.publish_event: PUBLISH the JSON envelope on job:<id>:events.  Redis
\* hands it to every connection subscribed to that channel at that moment;
\* nothing is kept for later subscribers.
\* (a bus with one channel for all jobs)
Deliver_any_channel(job_id, payload) ==
  [s \in Streams |->
     IF subOpen[s]
       THEN Append(inbox[s], [type |-> "message", data |-> payload])
       ELSE inbox[s]]

\* (a connection that hands over the newest message first)
Deliver_newest_first(job_id, payload) ==
  [s \in Streams |->
     IF subOpen[s] /\ sjob[s] = job_id
       THEN << [type |-> "message", data |-> payload] >> \o inbox[s]
       ELSE inbox[s]]

Deliver(job_id, payload) ==
  [s \in Streams |->
     IF subOpen[s] /\ sjob[s] = job_id
       THEN Append(inbox[s], [type |-> "message", data |-> payload])
       ELSE inbox[s]]

publish_event(job_id, event, data) ==
  LET payload == json_dumps([event |-> event, data |-> data]) IN
  /\ published' = [published EXCEPT ![job_id] = Append(@, payload)]
  /\ inbox' = Deliver(job_id, payload)

\* the events published so far on a job's channel, decoded
Events(j) == [i \in 1..Len(published[j]) |-> json_loads(published[j][i])]

\* JobEmitter helpers: the data dict each one publishes
\* (an emitter that reports what is left to do)
progress_data_remaining(pct, msg) == [pct |-> 100 - pct, msg |-> msg]

progress_data(pct, msg) == [pct |-> pct, msg |-> msg]
log_data(level, msg) == [level |-> level, msg |-> msg]
done_data(extra) == [k \in {"ok"} \cup DOMAIN extra |->
                       IF k \in DOMAIN extra THEN extra[k] ELSE TRUE]

\* ------------------------------------------------------- job directories
JOBS_DIR == "./data/jobs"
DEFAULT_TENANT == "public"
Tenants == {DEFAULT_TENANT, "acme"}

\* os.path.join: a path is the sequence of its components
os_path_join(a, b) == a \o b

\* a path and the directories above it
Ancestors(path) == { SubSeq(path, 1, k) : k \in 1..Len(path) }

\* os.makedirs(path, exist_ok=...): makes the leaf and every missing
\* directory above it; an existing leaf is an error unless exist_ok
os_makedirs(fs, path, exist_ok) ==
  IF path \in fs /\ ~exist_ok
    THEN [raised |-> "FileExistsError", fs |-> fs]
    ELSE [raised |-> NONE, fs |-> fs \cup Ancestors(path)]

\* (a job_dirs that insists on creating the directory itself)
job_dirs_no_exist_ok(fs, tenant, job_id) ==
  LET root == os_path_join(<< JOBS_DIR >>, << tenant, job_id >>)
      art == os_path_join(root, << "artifacts" >>)
      made == os_makedirs(fs, art, FALSE) IN
  [raised |-> made.raised, fs |-> made.fs,
   ret |-> IF made.raised = NONE THEN [root |-> root, artifacts |-> art]
                                 ELSE EmptyDict]

\* jobs.job_dirs: the result, the exception if any, and the disk afterwards
job_dirs(fs, tenant, job_id) ==
  LET root == os_path_join(<< JOBS_DIR >>, << tenant, job_id >>)
      art == os_path_join(root, << "artifacts" >>)
      made == os_makedirs(fs, art, TRUE) IN
  [raised |-> made.raised, fs |-> made.fs,
   ret |-> IF made.raised = NONE THEN [root |-> root, artifacts |-> art]
                                 ELSE EmptyDict]

\* a caller (run_job, WorkshopBuildFlow) asks for a job's directories
call_job_dirs(tenant, job_id) ==
  /\ Len(dcalls) < MaxDirCalls
  /\ LET r == job_dirs(dirs, tenant, job_id) IN
       /\ dirs' = r.fs
       /\ dcalls' = Append(dcalls, [tenant |-> tenant, job_id |-> job_id,
                                    before |-> dirs, raised |-> r.raised,
                                    ret |-> r.ret, after |-> r.fs])
  /\ UNCHANGED << mainVars, ljobs, _jobs, iters, flows >>

\* ---------------------------------------------------------- cancel flag
\* jobs.is_cancelled
is_cancelled(job_id) == cancelFlag[job_id]

_check_cancel(job_id) == is_cancelled(job_id)

guard_ignores_flag(job_id) == FALSE

\* run_job's closure guard(), lines 23-24
guard(job_id) == _check_cancel(job_id)

\* raise HTTPException(status, detail)
HTTPException(request, status, detail) ==
  [request |-> request, status |-> status, detail |-> detail]

\* a handler returns `body`: FastAPI answers 200 with it
Returned(request, body) == [request |-> request, status |-> 200, body |-> body]

\* (a handler that takes whatever job_id it finds, None and "" included)
job_id_missing_never(job_id) == FALSE

\* `if not job_id` (line 110)
job_id_missing(job_id) == job_id = NONE \/ job_id = ""

\* POST /generate/cancel
cancel(body) ==
  LET job_id == get(body, "job_id", NONE) IN
  IF job_id_missing(job_id)
    THEN /\ reply' = [reply EXCEPT !.cancel = HTTPException(body, 400, "job_id required")]
         /\ UNCHANGED stateVars
    ELSE /\ cancelFlag' = [cancelFlag EXCEPT ![job_id] = TRUE]
         /\ reply' = [reply EXCEPT
                         !.cancel = Returned(body, [ok |-> TRUE, cancelled |-> TRUE])]
         /\ UNCHANGED << jobVars, published, streamVars, restVars >>

\* the 600 s TTL of job:<id>:cancel runs out
ExpireCancel(j) ==
  /\ cancelFlag[j]
  /\ cancelFlag' = [cancelFlag EXCEPT ![j] = FALSE]
  /\ UNCHANGED << jobVars, published, streamVars, reply, restVars >>

\* ------------------------------------------------------------ submission
\* the order in which the queue hands out its ids
JobNo == [j1 |-> 1, j2 |-> 2]

OutputFormat == {"springer", "epub", "pdf", "mkdocs"}
EditorialPreset == {"springer", "oxford", "acm", "ieee"}

\* (an intent model whose outputs are plain strings)
valid_outputs_any(outputs) == TRUE

\* IntentData.outputs: List[OutputFormat]
valid_outputs(outputs) == \A i \in 1..Len(outputs) : outputs[i] \in OutputFormat

\* StartJobRequest(**body) does not raise
ValidBody(body) ==
  /\ "project" \in DOMAIN body
  /\ valid_outputs(body.project.outputs)
  /\ body.project.editorialPreset \in EditorialPreset \cup {NONE}

\* the `stream` field of the response
stream_path(job_id) == <<"/api/generate/stream?job_id=", job_id>>

\* (a handler that runs the first line of the job itself before it answers)
start_runs_inline(body, JS) ==
  /\ LoopFree
  /\ IF ~ValidBody(body)
       THEN /\ reply' = [reply EXCEPT !.start =
                              HTTPException(body, 400, "validation error")]
            /\ UNCHANGED stateVars
       ELSE \E id \in JS :
              /\ pc[id] = "unissued"
              /\ \A k \in JS : pc[k] = "unissued" => JobNo[id] <= JobNo[k]
              /\ rq' = Append(rq, id)
              /\ project' = [project EXCEPT ![id] = body.project]
              /\ pc' = [pc EXCEPT ![id] = "queued"]
              /\ publish_event(id, "log", log_data("info", "Job started"))
              /\ reply' = [reply EXCEPT !.start =
                              Returned(body,
                                       [ok |-> TRUE, job_id |-> id,
                                        stream |-> stream_path(id)])]
              /\ UNCHANGED << artifacts, files, dirs, cancelFlag, seen,
                              failure, spc, sjob, subAt, subOpen, cur, frames,
                              sexit, restVars >>

\* POST /generate/start, a coroutine of the serving process
start(body, JS) ==
  /\ LoopFree
  /\ IF ~ValidBody(body)
       THEN /\ reply' = [reply EXCEPT !.start =
                              HTTPException(body, 400, "validation error")]
            /\ UNCHANGED stateVars
       ELSE \E id \in JS :
              /\ pc[id] = "unissued"
              /\ \A k \in JS : pc[k] = "unissued" => JobNo[id] <= JobNo[k]
              /\ rq' = Append(rq, id)
              /\ project' = [project EXCEPT ![id] = body.project]
              /\ pc' = [pc EXCEPT ![id] = "queued"]
              /\ reply' = [reply EXCEPT !.start =
                              Returned(body,
                                       [ok |-> TRUE, job_id |-> id,
                                        stream |-> stream_path(id)])]
              /\ UNCHANGED << artifacts, files, dirs, published, cancelFlag,
                              seen, failure, streamVars, restVars >>

\* ---------------------------------------------------------------- worker
\* worker.work(): an RQ worker takes the job at the head of the queue
perform_job(j) ==
  /\ rq # << >> /\ Head(rq) = j
  /\ rq' = Tail(rq)
  /\ pc' = [pc EXCEPT ![j] = "job_started"]
  /\ UNCHANGED << project, artifacts, files, dirs, published, cancelFlag,
                  reply, restVars, seen, failure, streamVars >>

\* run_job_worker, line 41
run_job_worker(j) ==
  /\ pc[j] = "job_started"
  /\ publish_event(j, "log", log_data("info", "Job started"))
  /\ pc' = [pc EXCEPT ![j] = "run_job"]
  /\ UNCHANGED << rq, project, artifacts, files, dirs, cancelFlag, reply,
                  restVars, seen, failure, spc, sjob, subAt, subOpen, cur,
                  frames, sexit >>

\* run_job, lines 18-21: clients, emitter, job_dirs
run_job(j) ==
  /\ pc[j] = "run_job"
  /\ dirs' = job_dirs(dirs, DEFAULT_TENANT, j).fs
  /\ pc' = [pc EXCEPT ![j] = "guard1"]
  /\ UNCHANGED << rq, project, artifacts, files, published, cancelFlag, reply,
                  restVars, seen, failure, streamVars >>

Checkpoints == {"guard1", "guard2", "guard3", "guard4"}
CheckpointNo == [guard1 |-> 1, guard2 |-> 2, guard3 |-> 3, guard4 |-> 4]
AfterCheckpoint ==
  [guard1 |-> "progress15", guard2 |-> "progress55",
   guard3 |-> "progress75", guard4 |-> "progress90"]

\* (a checkpoint that consumes the flag it reads, as a GETDEL would)
checkpoint_consumes_flag(j) ==
  /\ pc[j] \in Checkpoints
  /\ IF guard(j)
       THEN /\ artifacts' = [artifacts EXCEPT ![j] = << >>]
            /\ pc' = [pc EXCEPT ![j] = "returned"]
       ELSE /\ pc' = [pc EXCEPT ![j] = AfterCheckpoint[pc[j]]]
            /\ UNCHANGED artifacts
  /\ seen' = [seen EXCEPT ![j] =
                IF is_cancelled(j)
                  THEN [at |-> CheckpointNo[pc[j]], len |-> Len(published[j]),
                        files |-> files[j]]
                  ELSE @]
  /\ cancelFlag' = [cancelFlag EXCEPT ![j] = FALSE]
  /\ UNCHANGED << rq, project, files, dirs, published, reply, restVars,
                  failure, streamVars >>

\* `if guard(): return []` at lines 27, 38, 41, 44
checkpoint(j) ==
  /\ pc[j] \in Checkpoints
  /\ IF guard(j)
       THEN /\ artifacts' = [artifacts EXCEPT ![j] = << >>]
            /\ pc' = [pc EXCEPT ![j] = "returned"]
       ELSE /\ pc' = [pc EXCEPT ![j] = AfterCheckpoint[pc[j]]]
            /\ UNCHANGED artifacts
  /\ seen' = [seen EXCEPT ![j] =
                IF is_cancelled(j)
                  THEN [at |-> CheckpointNo[pc[j]], len |-> Len(published[j]),
                        files |-> files[j]]
                  ELSE @]
  /\ UNCHANGED << rq, project, files, dirs, published, cancelFlag, reply,
                  restVars, failure, streamVars >>

ProgressSteps ==
  [progress15 |-> [pct |-> 15, msg |-> "Planning outline", next |-> "outline"],
   progress55 |-> [pct |-> 55, msg |-> "Writing content", next |-> "guard3"],
   progress75 |-> [pct |-> 75, msg |-> "Editing & QA", next |-> "guard4"],
   progress90 |-> [pct |-> 90, msg |-> "Exporting", next |-> "export"],
   progress100 |-> [pct |-> 100, msg |-> "Done", next |-> "emitter_done"]]

\* emitter.progress(...) at lines 30, 39, 42, 45, 63
progress(j) ==
  /\ pc[j] \in DOMAIN ProgressSteps
  /\ publish_event(j, "progress",
                   progress_data(ProgressSteps[pc[j]].pct, ProgressSteps[pc[j]].msg))
  /\ pc' = [pc EXCEPT ![j] = ProgressSteps[pc[j]].next]
  /\ UNCHANGED << rq, project, artifacts, files, dirs, cancelFlag, reply,
                  restVars, seen, failure, spc, sjob, subAt, subOpen, cur,
                  frames, sexit >>

\* an exception leaves run_job and run_job_worker: neither has a handler,
\* so it reaches the queue as it is
Raise(j, exc) ==
  /\ pc' = [pc EXCEPT ![j] = "failed"]
  /\ failure' = [failure EXCEPT ![j] = exc]
  /\ UNCHANGED << rq, project, artifacts, files, dirs, published, cancelFlag,
                  reply, restVars, seen, streamVars >>

\* wx_chat_generate(...) then emitter.log, lines 33-36; the model call can raise
outline(j) ==
  /\ pc[j] = "outline"
  /\ \/ /\ publish_event(j, "log", log_data("info", "Outline proposed."))
        /\ pc' = [pc EXCEPT ![j] = "guard2"]
        /\ UNCHANGED << rq, project, artifacts, files, dirs, cancelFlag,
                        reply, restVars, seen, failure, spc, sjob, subAt,
                        subOpen, cur, frames, sexit >>
     \/ Raise(j, "wx_chat_generate failed")

\* ------------------------------------------------------ export, lines 46-61
\* the `if "<fmt>" in outs` lines, in the order the code tests them
ExportOrder == <<"springer", "epub", "pdf", "mkdocs">>

Upper == [springer |-> "SPRINGER", oxford |-> "OXFORD", acm |-> "ACM", ieee |-> "IEEE"]
PdfName == [springer |-> "springer.pdf", oxford |-> "oxford.pdf",
            acm |-> "acm.pdf", ieee |-> "ieee.pdf"]

\* base = (editorialPreset or "springer").lower()
base(proj) == IF proj.editorialPreset = NONE THEN "springer" ELSE proj.editorialPreset

\* the arguments each line passes to write_art
ArtArgs(proj, fmt) ==
  CASE fmt = "springer" -> [aid |-> base(proj), label |-> <<Upper[base(proj)], " PDF">>,
                            name |-> PdfName[base(proj)], size |-> 12340000]
    [] fmt = "epub"     -> [aid |-> "epub", label |-> <<"EPUB">>,
                            name |-> "book.epub", size |-> 7180000]
    [] fmt = "pdf"      -> [aid |-> "pdf", label |-> <<"Print PDF">>,
                            name |-> "print.pdf", size |-> 15510000]
    [] fmt = "mkdocs"   -> [aid |-> "mkdocs", label |-> <<"MkDocs Site">>,
                            name |-> "site.zip", size |-> 2240000]

\* the dict write_art appends to `artifacts`
ArtifactDict(job_id, a) ==
  [id |-> a.aid, label |-> a.label, status |-> "ready",
   href |-> <<"/api/exports/", job_id, "/", a.name>>, bytes |-> a.size]

\* the formats of ExportOrder that are in outs, in that order
Selected(outs) == SelectSeq(ExportOrder, LAMBDA f : InList(f, outs))

\* the format the export phase handles next: the artifacts list grows by one
\* per handled format
NextFormat(j) == Selected(project[j].outputs)[Len(artifacts[j]) + 1]

\* write_art(...): the file is written, the dict appended; the write can raise
write_art(j) ==
  /\ pc[j] = "export"
  /\ Len(artifacts[j]) < Len(Selected(project[j].outputs))
  /\ LET a == ArtArgs(project[j], NextFormat(j)) IN
       \/ /\ files' = [files EXCEPT ![j] = @ \cup {a.name}]
          /\ artifacts' = [artifacts EXCEPT ![j] = Append(@, ArtifactDict(j, a))]
          /\ pc' = [pc EXCEPT ![j] = "emit_artifact"]
          /\ UNCHANGED << rq, project, dirs, published, cancelFlag, reply,
                          restVars, seen, failure, streamVars >>
       \/ Raise(j, "OSError")

\* (an export phase that writes its files without announcing them)
emit_artifact_silent(j) ==
  /\ pc[j] = "emit_artifact"
  /\ pc' = [pc EXCEPT ![j] = "export"]
  /\ UNCHANGED << rq, project, artifacts, files, dirs, published, cancelFlag,
                  reply, restVars, seen, failure, streamVars >>

\* emitter.artifact(artifacts[-1])
emit_artifact(j) ==
  /\ pc[j] = "emit_artifact"
  /\ publish_event(j, "artifact", artifacts[j][Len(artifacts[j])])
  /\ pc' = [pc EXCEPT ![j] = "export"]
  /\ UNCHANGED << rq, project, artifacts, files, dirs, cancelFlag, reply,
                  restVars, seen, failure, spc, sjob, subAt, subOpen, cur,
                  frames, sexit >>

\* no `if ... in outs` line is left: on to line 63
export_end(j) ==
  /\ pc[j] = "export"
  /\ Len(artifacts[j]) = Len(Selected(project[j].outputs))
  /\ pc' = [pc EXCEPT ![j] = "progress100"]
  /\ UNCHANGED << rq, project, artifacts, files, dirs, published, cancelFlag,
                  reply, restVars, seen, failure, streamVars >>

\* emitter.done() at line 64, then `return artifacts`
emitter_done(j) ==
  /\ pc[j] = "emitter_done"
  /\ publish_event(j, "done", done_data(EmptyDict))
  /\ pc' = [pc EXCEPT ![j] = "returned"]
  /\ UNCHANGED << rq, project, artifacts, files, dirs, cancelFlag, reply,
                  restVars, seen, failure, spc, sjob, subAt, subOpen, cur,
                  frames, sexit >>

\* (a harness that reports done only when there is something to report)
worker_done_if_artifacts(j) ==
  /\ pc[j] = "returned"
  /\ IF artifacts[j] # << >>
       THEN publish_event(j, "done", [ok |-> TRUE, artifacts |-> artifacts[j]])
       ELSE UNCHANGED << published, inbox >>
  /\ pc' = [pc EXCEPT ![j] = "finished"]
  /\ UNCHANGED << rq, project, artifacts, files, dirs, cancelFlag, reply,
                  restVars, seen, failure, spc, sjob, subAt, subOpen, cur,
                  frames, sexit >>

\* run_job_worker, lines 43-44: run_job has returned `artifacts`
worker_done(j) ==
  /\ pc[j] = "returned"
  /\ publish_event(j, "done", [ok |-> TRUE, artifacts |-> artifacts[j]])
  /\ pc' = [pc EXCEPT ![j] = "finished"]
  /\ UNCHANGED << rq, project, artifacts, files, dirs, cancelFlag, reply,
                  restVars, seen, failure, spc, sjob, subAt, subOpen, cur,
                  frames, sexit >>

\* ------------------------------------------------------------ SSE bridge
PingFrame == [event |-> "ping", data |-> json_dumps(EmptyDict)]

Pings(s) == Cardinality({i \in 1..Len(frames[s]) : frames[s][i].event = "ping"})

\* where a started generator can be suspended: at a yield or in asyncio.sleep
Suspended == {"yield_first_ping", "yield_ping", "sleep", "yield_event", "yield_data"}

\* (a bus that keeps a channel's history and replays it to a new subscriber)
subscribe_replays(s, job_id) ==
  /\ spc[s] = "unused"
  /\ LoopFree
  /\ spc' = [spc EXCEPT ![s] = "created"]
  /\ sjob' = [sjob EXCEPT ![s] = job_id]
  /\ subAt' = [subAt EXCEPT ![s] = Len(published[job_id])]
  /\ subOpen' = [subOpen EXCEPT ![s] = TRUE]
  /\ inbox' = [inbox EXCEPT ![s] =
                 << [type |-> "subscribe"] >> \o
                 [i \in 1..Len(published[job_id]) |->
                    [type |-> "message", data |-> published[job_id][i]]]]
  /\ UNCHANGED << jobVars, published, cancelFlag, reply, restVars, cur,
                  frames, sexit >>

\* sse_event_gen lines 39-43 (stream, lines 73-77): subscribe, build the
\* generator object; its body has not run yet
subscribe(s, job_id) ==
  /\ spc[s] = "unused"
  /\ LoopFree
  /\ spc' = [spc EXCEPT ![s] = "created"]
  /\ sjob' = [sjob EXCEPT ![s] = job_id]
  /\ subAt' = [subAt EXCEPT ![s] = Len(published[job_id])]
  /\ subOpen' = [subOpen EXCEPT ![s] = TRUE]
  /\ inbox' = [inbox EXCEPT ![s] = << [type |-> "subscribe"] >>]
  /\ UNCHANGED << jobVars, published, cancelFlag, reply, restVars, cur,
                  frames, sexit >>

\* the `finally:` block: unsubscribe and close, errors swallowed
finally(s, why) ==
  /\ spc' = [spc EXCEPT ![s] = "closed"]
  /\ subOpen' = [subOpen EXCEPT ![s] = FALSE]
  /\ sexit' = [sexit EXCEPT ![s] = why]

\* (a bridge that starts reading the bus without the opening ping)
first_ping_skipped(s) ==
  /\ spc[s] = "created"
  /\ LoopFree
  /\ spc' = [spc EXCEPT ![s] = "get_message"]
  /\ UNCHANGED << jobVars, published, cancelFlag, reply, restVars, sjob,
                  subAt, subOpen, inbox, cur, frames, sexit >>

\* the first __anext__: enter the try block, yield the first ping (line 46)
first_ping(s) ==
  /\ spc[s] = "created"
  /\ LoopFree
  /\ frames' = [frames EXCEPT ![s] = Append(@, PingFrame)]
  /\ spc' = [spc EXCEPT ![s] = "yield_first_ping"]
  /\ UNCHANGED << jobVars, published, cancelFlag, reply, restVars, sjob,
                  subAt, subOpen, inbox, cur, sexit >>

is_done_never(event) == FALSE

\* `if event == "done": break` (line 60)
is_done(event) == event = "done"

\* the consumer asks for the next chunk: the generator runs on from its yield
\* (or its sleep) to the next place it stops
resume(s) ==
  /\ spc[s] \in Suspended
  /\ LoopFree
  /\ CASE spc[s] \in {"yield_first_ping", "sleep"} ->
            /\ spc' = [spc EXCEPT ![s] = "get_message"]
            /\ UNCHANGED << subOpen, frames, sexit >>
       [] spc[s] = "yield_ping" ->
            /\ spc' = [spc EXCEPT ![s] = "sleep"]
            /\ UNCHANGED << subOpen, frames, sexit >>
       [] spc[s] = "yield_event" ->
            /\ frames' = [frames EXCEPT ![s] =
                            Append(@, [event |-> cur[s].event,
                                       data |-> json_dumps(cur[s].data)])]
            /\ spc' = [spc EXCEPT ![s] = "yield_data"]
            /\ UNCHANGED << subOpen, sexit >>
       [] spc[s] = "yield_data" ->
            IF is_done(cur[s].event)
              THEN finally(s, "done") /\ UNCHANGED frames
              ELSE /\ spc' = [spc EXCEPT ![s] = "get_message"]
                   /\ UNCHANGED << subOpen, frames, sexit >>
  /\ UNCHANGED << jobVars, published, cancelFlag, reply, restVars, sjob,
                  subAt, inbox, cur >>

\* psub.get_message(timeout=15.0) returns a message (lines 48, 53-58)
get_message(s) ==
  /\ spc[s] = "get_message"
  /\ inbox[s] # << >>
  /\ inbox' = [inbox EXCEPT ![s] = Tail(@)]
  /\ LET msg == Head(inbox[s]) IN
       IF msg.type # "message"
         THEN UNCHANGED << spc, cur >>
         ELSE LET payload == json_loads(msg.data) IN
              /\ cur' = [cur EXCEPT ![s] =
                           [event |-> get(payload, "event", "log"),
                            data |-> get(payload, "data", EmptyDict)]]
              /\ spc' = [spc EXCEPT ![s] = "yield_event"]
  /\ UNCHANGED << jobVars, published, cancelFlag, reply, restVars, sjob,
                  subAt, subOpen, frames, sexit >>

\* (a read with no timeout never returns None)
get_message_blocks(s) ==
  /\ FALSE
  /\ UNCHANGED vars

\* psub.get_message(timeout=15.0) returns None (lines 49-50): keep-alive ping
get_message_timeout(s) ==
  /\ spc[s] = "get_message"
  /\ inbox[s] = << >>
  /\ Pings(s) <= MaxPings
  /\ frames' = [frames EXCEPT ![s] = Append(@, PingFrame)]
  /\ spc' = [spc EXCEPT ![s] = "yield_ping"]
  /\ UNCHANGED << jobVars, published, cancelFlag, reply, restVars, sjob,
                  subAt, subOpen, inbox, cur, sexit >>

\* psub.get_message raises: the connection to Redis is found dead once
\* nothing is left to read from it.  The exception leaves the loop through
\* `finally` and ends the generator
get_message_raises(s) ==
  /\ spc[s] = "get_message"
  /\ inbox[s] = << >>
  /\ finally(s, "error")
  /\ UNCHANGED << jobVars, published, cancelFlag, reply, restVars, sjob,
                  subAt, inbox, cur, frames >>

\* the client goes away: the response task is cancelled.  A generator that has
\* started is closed at its suspension point, which runs its `finally`; one
\* whose body was never entered is dropped, and no line of it runs
client_disconnect(s) ==
  /\ LoopFree
  /\ \/ /\ spc[s] \in Suspended
        /\ finally(s, "disconnect")
     \/ /\ spc[s] = "created"
        /\ spc' = [spc EXCEPT ![s] = "abandoned"]
        /\ sexit' = [sexit EXCEPT ![s] = "abandoned"]
        /\ UNCHANGED subOpen
  /\ UNCHANGED << jobVars, published, cancelFlag, reply, restVars, sjob,
                  subAt, inbox, cur, frames >>

\* ------------------------------------------------------------------ spec
JobStep(j) ==
  \/ perform_job(j)
  \/ run_job_worker(j)
  \/ run_job(j)
  \/ checkpoint(j)
  \/ progress(j)
  \/ outline(j)
  \/ write_art(j)
  \/ emit_artifact(j)
  \/ export_end(j)
  \/ emitter_done(j)
  \/ worker_done(j)

StreamStep(s) ==
  \/ first_ping(s)
  \/ resume(s)
  \/ get_message(s)
  \/ get_message_timeout(s)

\* the system with the queue handing out the ids JS and the clients opening
\* the connections SS
NextOver(JS, SS, Bodies, Cancels) ==
  \/ \E body \in Bodies : start(body, JS)
  \/ \E body \in Cancels : cancel(body)
  \/ \E j \in Jobs : ExpireCancel(j)
  \/ \E j \in JS : JobStep(j)
  \/ \E s \in SS, j \in JS : subscribe(s, j)
  \/ \E s \in SS : StreamStep(s)
  \/ \E s \in SS : get_message_raises(s)
  \/ \E s \in SS : client_disconnect(s)

\* one job and one SSE connection; every request is well-formed
Next ==
  NextOver({"j1"}, {"s1"}, {[project |-> p] : p \in ProjectChoices},
           {[job_id |-> "j1"]})

Spec == Init /\ [][Next]_vars

\* A worker runs its job synchronously to the end; the event loop keeps
\* resuming a generator whose consumer is still there; nothing obliges the
\* bus connection to fail or the client to leave.  The submission is the
\* {"outputs": ["pdf"]} project.
FairJobs == {"j1"}
FairStreams == {"s1"}

FairNext ==
  NextOver(FairJobs, FairStreams, {[project |-> PdfProject]}, {[job_id |-> "j1"]})

FairSpec ==
  /\ Init /\ [][FairNext]_vars
  /\ \A j \in FairJobs : WF_vars(JobStep(j))
  /\ \A s \in FairStreams : WF_vars(StreamStep(s))

\* The API and the workers with no stream open: two job ids, every kind of
\* body on both endpoints.
HttpBodies ==
  { [project |-> PdfProject],
    EmptyDict,
    [project |-> [outputs |-> <<"docx">>, editorialPreset |-> NONE]] }

HttpNext ==
  \/ \E body \in HttpBodies : start(body, Jobs)
  \/ \E body \in CancelBodies(Jobs) : cancel(body)
  \/ \E j \in Jobs : ExpireCancel(j)
  \/ \E j \in Jobs : JobStep(j)

HttpSpec == Init /\ [][HttpNext]_vars

\* ---------------------------------------- in-memory fallback (local_jobs)
\* asyncio.Queue(): maxsize defaults to 0, which means no limit
QueueMaxsize == 0

\* Queue.full()
full(queue) == QueueMaxsize > 0 /\ Len(queue) >= QueueMaxsize

\* LocalJob.publish: put_nowait, a QueueFull swallowed by `except Exception`
publish(job, event, data) ==
  [job EXCEPT !.queue = IF full(@) THEN @ ELSE Append(@, << event, data >>),
              !.pubs = @ + 1]

\* LocalJob.mark_done
mark_done(job) ==
  publish([job EXCEPT !.done = TRUE], "done",
          [ok |-> job.error = NONE, error |-> job.error])

\* what the rest of the model leaves alone
notLocal == << mainVars, dirs, dcalls, flows >>

\* create_job(): a new LocalJob, registered under its id
create_job(l) ==
  /\ ~ljobs[l].made
  /\ ljobs' = [ljobs EXCEPT ![l] = [NoLocalJob EXCEPT !.made = TRUE]]
  /\ _jobs' = _jobs \cup {l}
  /\ UNCHANGED << notLocal, iters >>

\* the task that runs the job calls job.publish(event, data)
LocalEvents == {"progress", "log"}

local_publish(l, event) ==
  /\ ljobs[l].made
  /\ ljobs[l].pubs < MaxLocalEvents
  /\ ljobs' = [ljobs EXCEPT ![l] = publish(@, event, EmptyDict)]
  /\ UNCHANGED << notLocal, _jobs, iters >>

\* the task that runs the job calls job.mark_done()
local_mark_done(l) ==
  /\ ljobs[l].made
  /\ ljobs[l].pubs < MaxLocalEvents
  /\ ljobs' = [ljobs EXCEPT ![l] = mark_done(@)]
  /\ UNCHANGED << notLocal, _jobs, iters >>

\* set_error(job_id, msg): nothing happens for an id that is not registered
set_error(l, msg) ==
  /\ ljobs[l].pubs + 2 <= MaxLocalEvents
  /\ IF l \in _jobs
       THEN ljobs' = [ljobs EXCEPT ![l] =
                        mark_done(publish([@ EXCEPT !.error = msg], "error",
                                          [message |-> msg]))]
       ELSE UNCHANGED ljobs
  /\ UNCHANGED << notLocal, _jobs, iters >>

\* a route looks the job up with get_job and starts sse_iter(job) on it
sse_iter(c, l) ==
  /\ iters[c].pc = "unused"
  /\ l \in _jobs
  /\ iters' = [iters EXCEPT ![c] = [pc |-> "loop", job |-> l, frames |-> << >>]]
  /\ UNCHANGED << notLocal, ljobs, _jobs >>

\* one turn of sse_iter's loop that does not time out: either the break and
\* the `finally`, or one event taken from the queue and yielded as a frame
sse_iter_turn(c) ==
  /\ iters[c].pc = "loop"
  /\ LET l == iters[c].job IN
       IF ljobs[l].done /\ ljobs[l].queue = << >>
         THEN /\ iters' = [iters EXCEPT ![c].pc = "closed"]
              /\ _jobs' = _jobs \ {l}
              /\ UNCHANGED ljobs
         ELSE /\ ljobs[l].queue # << >>
              /\ ljobs' = [ljobs EXCEPT ![l].queue = Tail(@)]
              /\ iters' = [iters EXCEPT ![c].frames =
                              Append(@, [event |-> Head(ljobs[l].queue)[1],
                                         data |-> json_dumps(Head(ljobs[l].queue)[2])])]
              /\ UNCHANGED _jobs
  /\ UNCHANGED notLocal

\* the consumer goes away while the generator is suspended at a yield: the
\* generator is closed there and its `finally` runs
sse_iter_close(c) ==
  /\ iters[c].pc = "loop"
  /\ iters[c].frames # << >>
  /\ iters' = [iters EXCEPT ![c].pc = "closed"]
  /\ _jobs' = _jobs \ {iters[c].job}
  /\ UNCHANGED << notLocal, ljobs >>

LocalNext ==
  \/ \E l \in LocalIds : create_job(l)
  \/ \E l \in LocalIds, event \in LocalEvents : local_publish(l, event)
  \/ \E l \in LocalIds : local_mark_done(l)
  \/ \E l \in LocalIds : set_error(l, "boom")
  \/ \E c \in Consumers, l \in LocalIds : sse_iter(c, l)
  \/ \E c \in Consumers : sse_iter_turn(c)
  \/ \E c \in Consumers : sse_iter_close(c)

LocalSpec == Init /\ [][LocalNext]_vars

\* ------------------------------------------- WorkshopBuildFlow (CrewAI)
\* what the flow leaves alone
notFlow == << mainVars, dcalls, ljobs, _jobs, iters >>

\* the decorators: which methods a finished method or a router label
\* triggers (@listen(bootstrap), @router(plan_and_research),
\* @listen(or_("low_confidence", "medium_confidence")),
\* @listen(or_("high_confidence", "medium_confidence")),
\* @listen(write_and_format)); nothing listens to reinforce_research or to
\* export_artifacts
Listeners ==
  [bootstrap |-> {"plan_and_research"},
   plan_and_research |-> {"route_after_plan"},
   low_confidence |-> {"reinforce_research"},
   medium_confidence |-> {"reinforce_research", "write_and_format"},
   high_confidence |-> {"write_and_format"},
   reinforce_research |-> {},
   write_and_format |-> {"export_artifacts"},
   export_artifacts |-> {}]

\* a method has returned: it leaves the pending set and what it triggers
\* enters it
Returns(fl, method, trigger) ==
  [fl EXCEPT !.pending = (@ \ {method}) \cup Listeners[trigger],
             !.ran = @ \cup {method}]

\* emitter.progress / emitter.log / emitter.artifact
emit(fl, event, data) ==
  [fl EXCEPT !.emitted = Append(@, [event |-> event, data |-> data])]

\* len(content) of the byte strings the flow writes
len ==
  [c \in {"%PDF-1.4\n% minimal demo\n", "EPUB-DATA", "ZIPDATA",
          "# Workshop\n\n", "# Lab 1"} |->
     CASE c = "%PDF-1.4\n% minimal demo\n" -> 24
       [] c = "EPUB-DATA" -> 9
       [] c = "ZIPDATA" -> 7
       [] c = "# Workshop\n\n" -> 12
       [] c = "# Lab 1" -> 7]

\* WorkshopBuildFlow._write_artifact: the flow object and the disk afterwards
_write_artifact(fl, fs, kind, label, filename, content) ==
  LET made == os_makedirs(fs, fl.art_dir, TRUE)
      path == os_path_join(fl.art_dir, << filename >>)
      meta == [type |-> kind, label |-> label, path |-> path,
               filename |-> filename, size |-> len[content]]
      kept == [fl EXCEPT !.files = @ \cup {path},
                         !.state.artifacts = Append(@, meta)] IN
  [fs |-> made.fs, fl |-> emit(kept, "artifact", meta)]

\* WorkshopBuildFlow.__init__: the state is WorkshopState(), the directories
\* are resolved once
WorkshopBuildFlow(j, tenant, proj) ==
  /\ ~flows[j].built
  /\ LET d == job_dirs(dirs, tenant, j) IN
       /\ dirs' = d.fs
       /\ flows' = [flows EXCEPT ![j] =
                      [NoFlow EXCEPT !.built = TRUE, !.tenant = tenant,
                                     !.project = proj,
                                     !.art_dir = d.ret.artifacts]]
  /\ UNCHANGED notFlow

\* flow.kickoff(): the @start() method is due
kickoff(j) ==
  /\ flows[j].built
  /\ ~flows[j].kicked
  /\ flows' = [flows EXCEPT ![j] = [@ EXCEPT !.kicked = TRUE,
                                             !.pending = {"bootstrap"}]]
  /\ UNCHANGED << notFlow, dirs >>

\* @start() bootstrap
bootstrap(j) ==
  /\ "bootstrap" \in flows[j].pending
  /\ LET fl == flows[j]
         a == [fl EXCEPT !.state.phase = "bootstrap"]
         b == emit(a, "log", log_data("info", "Bootstrapping flow"))
         c == emit(b, "progress", progress_data(5, "Bootstrapping"))
         inputs == [topic |-> get(fl.project, "name", "Untitled Workshop"),
                    scope |-> get(fl.project, "scope", "workshop"),
                    language |-> get(fl.project, "language", "en")] IN
       flows' = [flows EXCEPT ![j] =
                   Returns([c EXCEPT !.inputs = inputs], "bootstrap", "bootstrap")]
  /\ UNCHANGED << notFlow, dirs >>

\* what crew.kickoff can hand back to plan_and_research: an object that is
\* not a dict (its text has bullet lines or has none), or a dict with an
\* outline and a confidence that is absent, not a number, or a number
NoConfidence == [present |-> FALSE, number |-> FALSE, value |-> 0]
NotANumber == [present |-> TRUE, number |-> FALSE, value |-> 0]
Confidence(v) == [present |-> TRUE, number |-> TRUE, value |-> v]

PlanResults ==
  { [isdict |-> FALSE, outline |-> << >>, bullets |-> << >>, confidence |-> NoConfidence],
    [isdict |-> FALSE, outline |-> << >>, bullets |-> << "Setup", "Lab" >>,
     confidence |-> NoConfidence],
    [isdict |-> TRUE, outline |-> << "Setup" >>, bullets |-> << >>, confidence |-> NoConfidence],
    [isdict |-> TRUE, outline |-> << >>, bullets |-> << >>, confidence |-> NotANumber] }
  \cup { [isdict |-> TRUE, outline |-> << "Setup" >>, bullets |-> << >>,
          confidence |-> Confidence(v)] : v \in {50, 60, 80, 90} }

\* result.get("confidence", 0.7), in hundredths
DefaultConfidence == 70

\* the confidence plan_and_research leaves in the state: untouched when the
\* result is not a dict, the default when float() raises
parsed_confidence(old, result) ==
  IF ~result.isdict THEN old
  ELSE IF ~result.confidence.present THEN DefaultConfidence
  ELSE IF ~result.confidence.number THEN DefaultConfidence
  ELSE result.confidence.value

DefaultOutline == << "Introduction", "Core Concepts", "Hands-on Lab", "Review & Next Steps" >>

\* the outline plan_and_research leaves in the state
parsed_outline(result) ==
  LET fromDict == IF result.isdict THEN result.outline ELSE << >>
      found == IF fromDict = << >> THEN result.bullets ELSE fromDict IN
  IF found = << >> THEN DefaultOutline ELSE found

\* @listen(bootstrap) plan_and_research
plan_and_research(j, result) ==
  /\ "plan_and_research" \in flows[j].pending
  /\ LET fl == flows[j]
         a == emit([fl EXCEPT !.state.phase = "planning"], "progress",
                   progress_data(15, "Planning & Research"))
         b == [a EXCEPT !.state.confidence = parsed_confidence(@, result),
                        !.state.outline = parsed_outline(result)]
         c == emit(b, "log",
                   log_data("info", [size |-> Len(b.state.outline),
                                     confidence |-> b.state.confidence]))
         d == emit(c, "progress", progress_data(35, "Outline ready")) IN
       flows' = [flows EXCEPT ![j] =
                   Returns([d EXCEPT !.inputs = [outline |-> d.state.outline]],
                           "plan_and_research", "plan_and_research")]
  /\ UNCHANGED << notFlow, dirs >>

\* the thresholds of route_after_plan, in hundredths
HighThreshold == 80
MediumThreshold == 60

\* the label route_after_plan returns
route_label(c) ==
  IF c > HighThreshold THEN "high_confidence"
  ELSE IF c > MediumThreshold THEN "medium_confidence"
  ELSE "low_confidence"

\* @router(plan_and_research) route_after_plan
route_after_plan(j) ==
  /\ "route_after_plan" \in flows[j].pending
  /\ flows' = [flows EXCEPT ![j] =
                 Returns(@, "route_after_plan", route_label(@.state.confidence))]
  /\ UNCHANGED << notFlow, dirs >>

\* max(self.state.confidence, 0.75), in hundredths
ReinforcedConfidence == 75

\* @listen(or_("low_confidence", "medium_confidence")) reinforce_research
reinforce_research(j) ==
  /\ "reinforce_research" \in flows[j].pending
  /\ LET fl == flows[j]
         a == emit([fl EXCEPT !.state.phase = "reinforce"], "progress",
                   progress_data(45, "Reinforcing with additional research"))
         b == [a EXCEPT !.state.recommendations =
                           Append(@, "Reinforced with extra sources"),
                        !.state.confidence =
                           IF @ > ReinforcedConfidence THEN @ ELSE ReinforcedConfidence] IN
       flows' = [flows EXCEPT ![j] =
                   Returns([b EXCEPT !.inputs = [confidence |-> b.state.confidence]],
                           "reinforce_research", "reinforce_research")]
  /\ UNCHANGED << notFlow, dirs >>

\* str(result) of the writing crew: empty, or some Markdown
WriteResults == {"", "# Lab 1"}

\* @listen(or_("high_confidence", "medium_confidence")) write_and_format
write_and_format(j, result) ==
  /\ "write_and_format" \in flows[j].pending
  /\ LET fl == flows[j]
         a == emit([fl EXCEPT !.state.phase = "write"], "progress",
                   progress_data(65, "Writing content"))
         manuscript == IF result = "" THEN "# Workshop\n\n" ELSE result
         w == _write_artifact(a, dirs, "md", "Manuscript", "manuscript.md", manuscript)
         b == emit(w.fl, "progress", progress_data(80, "Manuscript ready")) IN
       /\ dirs' = w.fs
       /\ flows' = [flows EXCEPT ![j] =
                      Returns([b EXCEPT !.inputs =
                                 [manuscript_path |->
                                    os_path_join(fl.art_dir, << "manuscript.md" >>)]],
                              "write_and_format", "write_and_format")]
  /\ UNCHANGED notFlow

\* @listen(write_and_format) export_artifacts
export_artifacts(j) ==
  /\ "export_artifacts" \in flows[j].pending
  /\ LET fl == flows[j]
         a == emit([fl EXCEPT !.state.phase = "export"], "progress",
                   progress_data(90, "Exporting artifacts"))
         w1 == _write_artifact(a, dirs, "pdf", "Print PDF", "print.pdf",
                               "%PDF-1.4\n% minimal demo\n")
         w2 == _write_artifact(w1.fl, w1.fs, "epub", "EPUB", "book.epub", "EPUB-DATA")
         w3 == _write_artifact(w2.fl, w2.fs, "mkdocs", "MkDocs Site", "site.zip", "ZIPDATA")
         b == emit(w3.fl, "progress", progress_data(100, "Done")) IN
       /\ dirs' = w3.fs
       /\ flows' = [flows EXCEPT ![j] =
                      Returns([b EXCEPT !.inputs = [artifacts |-> b.state.artifacts]],
                              "export_artifacts", "export_artifacts")]
  /\ UNCHANGED notFlow

\* the projects a flow is built for
FlowProjects == { EmptyDict, [name |-> "Universal A2A"] }

\* Flows built and kicked off for the job ids, each running its due methods
\* in any order.
FlowNext ==
  \/ \E j \in Jobs, tenant \in Tenants, proj \in FlowProjects :
       WorkshopBuildFlow(j, tenant, proj)
  \/ \E j \in Jobs : kickoff(j)
  \/ \E j \in Jobs : bootstrap(j)
  \/ \E j \in Jobs, result \in PlanResults : plan_and_research(j, result)
  \/ \E j \in Jobs : route_after_plan(j)
  \/ \E j \in Jobs : reinforce_research(j)
  \/ \E j \in Jobs, result \in WriteResults : write_and_format(j, result)
  \/ \E j \in Jobs : export_artifacts(j)

FlowSpec == Init /\ [][FlowNext]_vars

\* The directory manager on its own: any sequence of job_dirs calls, on a
\* disk where Settings.ensure_dirs has or has not yet made JOBS_DIR.
DirsInit == \E d \in { {}, { << JOBS_DIR >> } } : InitBut(d)

DirsNext == \E tenant \in Tenants, job_id \in Jobs : call_job_dirs(tenant, job_id)

DirsSpec == DirsInit /\ [][DirsNext]_vars

\* Clients that ask for cancellation only while the job is queued or running
\* ahead of the pipeline's last checkpoint; no stream is open.
BeforeFinalCheckpoint ==
  {"queued", "job_started", "run_job", "guard1", "progress15", "outline",
   "guard2", "progress55", "guard3", "progress75", "guard4"}

EarlyCancelNext ==
  \/ \E body \in {[project |-> p] : p \in ProjectChoices} : start(body, Jobs)
  \/ \E j \in Jobs : cancel([job_id |-> j]) /\ pc[j] \in BeforeFinalCheckpoint
  \/ \E j \in Jobs : ExpireCancel(j)
  \/ \E j \in Jobs : JobStep(j)

EarlyCancelSpec == Init /\ [][EarlyCancelNext]_vars

\* Two jobs run by two workers, and a stream for each: the {"outputs":
\* ["pdf"]} project twice, a cancel request for the first job only.
StreamJob == [s1 |-> "j1", s2 |-> "j2"]

PairNext ==
  \/ \E body \in {[project |-> PdfProject]} : start(body, Jobs)
  \/ \E body \in {[job_id |-> "j1"]} : cancel(body)
  \/ \E j \in Jobs : JobStep(j)
  \/ \E s \in Streams : subscribe(s, StreamJob[s]) /\ pc[StreamJob[s]] = "queued"
  \/ \E s \in Streams : first_ping(s) \/ resume(s) \/ get_message(s)

PairSpec == Init /\ [][PairNext]_vars

\* ================================================================ claims
Ended(s) == spc[s] \in {"closed", "abandoned"}

DoneCount(j) == Cardinality({i \in 1..Len(published[j]) : Events(j)[i].event = "done"})

LastEvent(j) == Events(j)[Len(published[j])]

\* C1: when the pipeline body raises, the worker has published a log event
\* of level "error" and then a done event with ok=false and an error string
\* before the exception reaches the queue.
C1_ErrorLogThenDoneBeforeRaise ==
  \A j \in Jobs :
    pc[j] = "failed" =>
      LET ev == Events(j)
          n == Len(published[j]) IN
      /\ n >= 2
      /\ ev[n - 1].event = "log" /\ ev[n - 1].data.level = "error"
      /\ ev[n].event = "done" /\ ev[n].data.ok = FALSE
      /\ "error" \in DOMAIN ev[n].data

\* C2: a run of run_job_worker that completes has published exactly one
\* done event on the job's channel, and it is the last event published.
C2_ExactlyOneDoneLast ==
  \A j \in Jobs :
    pc[j] = "finished" =>
      /\ DoneCount(j) = 1
      /\ LastEvent(j).event = "done"

\* C3: the bridge relays the first done it receives and then ends: a done
\* frame is the last frame of its stream, the generator is then at that
\* yield or closed, and a stream that ended on done ends with that frame.
C3_NoFrameAfterDone ==
  \A s \in Streams :
    /\ \A i \in 1..Len(frames[s]) :
         frames[s][i].event = "done" =>
           /\ i = Len(frames[s])
           /\ spc[s] \in {"yield_data", "closed"}
    /\ sexit[s] = "done" =>
         /\ spc[s] = "closed"
         /\ frames[s][Len(frames[s])].event = "done"

\* a stream has ended on done while a later event published on the channel
\* (the harness's own done) still sits unread in its connection
C3_Witness ==
  \E s \in Streams :
    /\ sexit[s] = "done"
    /\ inbox[s] # << >>
    /\ DoneCount(sjob[s]) = 2

\* C4: no stream that has ended still holds its bus subscription, whichever
\* way it ended.
C4_EndedStreamsReleased ==
  \A s \in Streams : Ended(s) => ~subOpen[s]

\* C5: once a checkpoint has observed the cancel flag, the run has returned
\* an empty artifact list, has published no progress or artifact event since,
\* and the files on disk are the ones that were there at the checkpoint.
C5_CancelStopsPipeline ==
  \A j \in Jobs :
    seen[j].at # 0 =>
      /\ pc[j] \in {"returned", "finished"}
      /\ artifacts[j] = << >>
      /\ files[j] = seen[j].files
      /\ \A i \in (seen[j].len + 1)..Len(published[j]) :
           Events(j)[i].event \notin {"progress", "artifact"}

\* the third checkpoint saw the flag, after progress had been published, and
\* the harness has finished the run
C5_Witness ==
  \E j \in Jobs :
    /\ seen[j].at = 3
    /\ seen[j].len >= 3
    /\ pc[j] = "finished"
    /\ Len(published[j]) > seen[j].len

\* what a cancelled run and an uncancelled run report in the harness's done
C6_TerminalDone ==
  \A j \in Jobs :
    pc[j] = "finished" =>
      /\ LastEvent(j).event = "done"
      /\ LastEvent(j).data.ok = TRUE
      /\ IF seen[j].at # 0
           THEN /\ DoneCount(j) = 1
                /\ LastEvent(j).data.artifacts = << >>
                /\ project[j].outputs # << >> =>
                     Len(LastEvent(j).data.artifacts) < Len(Selected(project[j].outputs))
           ELSE Len(LastEvent(j).data.artifacts) = Len(Selected(project[j].outputs))

\* C6: a run stopped by a checkpoint still gets a terminal done from the
\* harness: ok is true whichever checkpoint saw the flag, the artifacts list
\* is empty, hence shorter than the list an uncancelled run with the same
\* non-empty outputs reports, and a stream open on the job when the run
\* returns comes to an end.
C6_CancelledRunReleasesStream ==
  /\ []C6_TerminalDone
  /\ \A j \in FairJobs, s \in FairStreams :
       (seen[j].at # 0 /\ pc[j] = "returned" /\ sjob[s] = j /\ subOpen[s] /\ ~Ended(s))
         ~> Ended(s)

\* the first checkpoint saw the flag of a job with outputs, and a stream
\* subscribed before the harness's done has relayed that done and closed
C6_Witness ==
  \E j \in Jobs, s \in Streams :
    /\ seen[j].at = 1
    /\ project[j].outputs # << >>
    /\ pc[j] = "finished"
    /\ sjob[s] = j
    /\ sexit[s] = "done"

\* C7: a generator does not go into another loop iteration (another read of
\* the bus) once cancellation has been requested for its job: the stream ends
\* on the cancel request, with no done needed.
C7_CancelEndsStream ==
  [][\A s \in Streams :
       (sjob[s] \in Jobs /\ spc[s] \in Suspended /\ cancelFlag[sjob[s]])
         => spc'[s] # "get_message"]_vars

\* C8: an open stream does not stall: from every point it goes on to its next
\* frame (an event or a keep-alive ping) until it has ended or has used up
\* the pings the model allows it; in particular it never stays in its read
\* of the bus.
C8_StreamKeepsProducing ==
  \A s \in FairStreams :
    /\ <>[](spc[s] = "unused" \/ Ended(s) \/ Pings(s) > MaxPings)
    /\ (spc[s] = "get_message" /\ Pings(s) <= MaxPings) ~> (spc[s] # "get_message")

\* a stream subscribed after the job's last event was published has emitted
\* a keep-alive ping
C8_Witness ==
  \E s \in Streams :
    /\ sjob[s] \in Jobs
    /\ pc[sjob[s]] = "finished"
    /\ inbox[s] = << >>
    /\ \A i \in 1..Len(frames[s]) : frames[s][i].event = "ping"
    /\ Len(frames[s]) = 2

\* C9: the first frame of a stream is a ping, and no event line is yielded
\* before it.
C9_FirstFrameIsPing ==
  \A s \in Streams :
    /\ frames[s] # << >> => frames[s][1] = PingFrame
    /\ frames[s] = << >> => spc[s] \in {"unused", "created", "abandoned"}

\* events were already waiting in the connection when the first ping went
\* out
C9_Witness ==
  \E s \in Streams :
    /\ spc[s] = "yield_first_ping"
    /\ Len(inbox[s]) >= 2
    /\ frames[s] = << PingFrame >>

\* C10: a stream that ended because its read of the bus failed has an error
\* frame as its last frame.
C10_ErrorFrameBeforeClose ==
  \A s \in Streams :
    sexit[s] = "error" =>
      /\ frames[s] # << >>
      /\ frames[s][Len(frames[s])].event = "error"

\* the frames of a stream that carry an event of the channel
Relayed(s) == SelectSeq(frames[s], LAMBDA f : f.event # "ping")

\* the frame the bridge makes of the i-th event published on j's channel
FrameOf(j, i) ==
  [event |-> Events(j)[i].event, data |-> json_dumps(Events(j)[i].data)]

\* the messages of the channel that have reached a connection: relayed,
\* read and half relayed, or still unread
Received(s) ==
  Len(Relayed(s))
    + (IF spc[s] = "yield_event" THEN 1 ELSE 0)
    + Len(SelectSeq(inbox[s], LAMBDA m : m.type = "message"))

\* C11: the non-ping frames of a stream are a contiguous run of the events
\* published on its job's channel, in publish order, without duplicate or
\* reordering: the run starts at the first event published after the
\* subscription, and no frame follows the first done of that run.
C11_RelayedIsContiguousRun ==
  \A s \in Streams :
    sjob[s] \in Jobs =>
      LET j == sjob[s]
          r == Relayed(s) IN
      /\ subAt[s] + Len(r) <= Len(published[j])
      /\ \A i \in 1..Len(r) :
           /\ r[i] = FrameOf(j, subAt[s] + i)
           /\ Events(j)[subAt[s] + i].event = "done" => i = Len(r)
      /\ sexit[s] = "done" =>
           /\ r # << >>
           /\ r[Len(r)].event = "done"

\* a stream subscribed in the middle of the run has relayed the events from
\* there on and ended on the pipeline's done, the harness's done left behind
C11_Witness ==
  \E s \in Streams :
    /\ sjob[s] \in Jobs
    /\ subAt[s] >= 2
    /\ Len(Relayed(s)) >= 3
    /\ sexit[s] = "done"
    /\ Len(published[sjob[s]]) > subAt[s] + Len(Relayed(s))

\* C12: events are not replayed: what reaches a connection is no more than
\* what was published after it subscribed, and a stream opened after all of
\* the job's events, done included, were published relays none of them.
C12_NoReplay ==
  \A s \in Streams :
    sjob[s] \in Jobs =>
      LET j == sjob[s] IN
      /\ Received(s) <= Len(published[j]) - subAt[s]
      /\ (pc[j] = "finished" /\ subAt[s] = Len(published[j])) =>
           /\ Relayed(s) = << >>
           /\ Received(s) = 0
           /\ sexit[s] # "done"

\* a stream opened on a finished job, whose channel carried a done, has
\* sent its opening ping and a keep-alive ping and is still open
C12_Witness ==
  \E s \in Streams :
    /\ sjob[s] \in Jobs
    /\ pc[sjob[s]] = "finished"
    /\ DoneCount(sjob[s]) >= 1
    /\ subAt[s] = Len(published[sjob[s]])
    /\ Len(frames[s]) >= 2
    /\ subOpen[s]

\* C13: for a job with outputs ["pdf"] that runs uncancelled, a stream
\* subscribed before the worker starts and ended on done has carried: a
\* ping first, then progress and log frames (and keep-alive pings), then
\* exactly one artifact frame with id "pdf", then a done frame with ok=true,
\* with no progress or log frame between the artifact and the done.
C13_PdfScenarioSequence ==
  \A s \in Streams :
    ( /\ sjob[s] \in Jobs
      /\ subAt[s] = 0
      /\ sexit[s] = "done"
      /\ project[sjob[s]].outputs = <<"pdf">>
      /\ seen[sjob[s]].at = 0 ) =>
      LET r == Relayed(s)
          n == Len(r) IN
      /\ frames[s][1] = PingFrame
      /\ n >= 2
      /\ r[n].event = "done" /\ json_loads(r[n].data).ok = TRUE
      /\ r[n - 1].event = "artifact" /\ json_loads(r[n - 1].data).id = "pdf"
      /\ \A i \in 1..(n - 2) : r[i].event \in {"progress", "log"}

\* C14: POST /generate/cancel with a missing or empty job_id answers 400
\* and sets no cancel flag; with a job_id it sets the flag of exactly that
\* job_id and answers {ok: true, cancelled: true}.  A flag only appears in a
\* step that serves a cancel request naming its job.
C14_CancelRequest ==
  [][ /\ reply'.cancel # reply.cancel =>
           LET req == reply'.cancel.request IN
           IF get(req, "job_id", NONE) \in {NONE, ""}
             THEN /\ reply'.cancel.status = 400
                  /\ cancelFlag' = cancelFlag
             ELSE /\ reply'.cancel.status = 200
                  /\ reply'.cancel.body = [ok |-> TRUE, cancelled |-> TRUE]
                  /\ cancelFlag' = [cancelFlag EXCEPT ![req.job_id] = TRUE]
      /\ \A j \in Jobs :
           (~cancelFlag[j] /\ cancelFlag'[j]) =>
             /\ reply'.cancel.request = [job_id |-> j]
             /\ reply'.cancel.status = 200
             /\ \A k \in Jobs \ {j} : cancelFlag'[k] = cancelFlag[k] ]_vars

\* a request without job_id has just been refused while the flag of one job
\* stands and the other job, running, has none
C14_Witness ==
  /\ reply.cancel.status = 400
  /\ reply.cancel.request = EmptyDict
  /\ cancelFlag["j2"] /\ ~cancelFlag["j1"]
  /\ pc["j1"] = "guard2"

\* C15: the worker and the pipeline only read the cancel flag: a checkpoint
\* poll leaves every flag as it is, a poll made while the flag of its job
\* stands returns true (the run returns), and the only step that removes a
\* flag is the expiry of its TTL.
C15_FlagOnlyRead ==
  [][\A j \in Jobs :
       /\ (pc[j] \in Checkpoints /\ pc'[j] # pc[j]) =>
            /\ cancelFlag' = cancelFlag
            /\ cancelFlag[j] =>
                 /\ pc'[j] = "returned"
                 /\ seen'[j].at = CheckpointNo[pc[j]]
       /\ (cancelFlag[j] /\ ~cancelFlag'[j]) => ExpireCancel(j) ]_vars

\* three polls found no flag, the fourth found it, and the flag still stands
\* when the harness has finished the run
C15_Witness ==
  \E j \in Jobs :
    /\ seen[j].at = 4
    /\ cancelFlag[j]
    /\ pc[j] = "finished"

\* a body POSTed to /generate/start that is not a StartJobRequest: no
\* project, or a project naming an output format or a preset that does not
\* exist
Malformed(body) ==
  \/ "project" \notin DOMAIN body
  \/ \E i \in 1..Len(body.project.outputs) :
        body.project.outputs[i] \notin {"springer", "epub", "pdf", "mkdocs"}
  \/ body.project.editorialPreset \notin {"springer", "oxford", "acm", "ieee", NONE}

\* C16: a malformed submission is answered 400 before anything is enqueued:
\* the step that serves it issues no job id, leaves the queue and the stored
\* payloads as they are and publishes no event; and no job id is ever issued
\* by a step serving a malformed body.
C16_MalformedRejected ==
  [][ /\ (reply'.start # reply.start /\ Malformed(reply'.start.request)) =>
           /\ reply'.start.status = 400
           /\ rq' = rq /\ pc' = pc /\ project' = project
           /\ published' = published
      /\ (\E j \in Jobs : pc[j] = "unissued" /\ pc'[j] # "unissued") =>
           ~Malformed(reply'.start.request) ]_vars

\* a body naming the unknown format "docx" has just been refused while one
\* job is running and the other id is still with the queue
C16_Witness ==
  /\ reply.start.status = 400
  /\ "project" \in DOMAIN reply.start.request
  /\ pc["j1"] = "guard2"
  /\ pc["j2"] = "unissued"
  /\ rq = << >>

\* C17: a valid submission enqueues exactly one queue entry and answers
\* ok=true with the job id the queue assigned and a stream path that
\* contains that id; the step itself runs nothing of the job and publishes
\* no event.
C17_ValidEnqueuesOnce ==
  [][ (reply'.start # reply.start /\ ~Malformed(reply'.start.request)) =>
        \E id \in Jobs :
          /\ pc[id] = "unissued"
          /\ pc' = [pc EXCEPT ![id] = "queued"]
          /\ rq' = Append(rq, id)
          /\ project'[id] = reply'.start.request.project
          /\ reply'.start.status = 200
          /\ reply'.start.body =
               [ok |-> TRUE, job_id |-> id,
                stream |-> <<"/api/generate/stream?job_id=", id>>]
          /\ published' = published
          /\ artifacts' = artifacts /\ files' = files /\ dirs' = dirs ]_vars

\* the second submission has been answered with the second id, which waits
\* in the queue with nothing published, while a worker runs the first job
C17_Witness ==
  /\ reply.start.status = 200
  /\ reply.start.body.job_id = "j2"
  /\ rq = << "j2" >>
  /\ published["j2"] = << >>
  /\ pc["j1"] = "progress55"

\* C19: job_dirs is idempotent: no call raises, and a call made for a
\* (tenant, job_id) that an earlier call was made for returns the same root
\* and artifacts paths and changes nothing on disk.
C19_JobDirsIdempotent ==
  \A k \in 1..Len(dcalls) :
    /\ dcalls[k].raised = NONE
    /\ \A i \in 1..(k - 1) :
         (dcalls[i].tenant = dcalls[k].tenant /\ dcalls[i].job_id = dcalls[k].job_id) =>
           /\ dcalls[k].ret = dcalls[i].ret
           /\ dcalls[k].after = dcalls[k].before

\* job_dirs was called on an empty disk, then for another tenant, then again
\* with the arguments of the first call
C19_Witness ==
  /\ Len(dcalls) = 3
  /\ dcalls[1].before = {}
  /\ dcalls[2].tenant # dcalls[1].tenant
  /\ dcalls[3].tenant = dcalls[1].tenant
  /\ dcalls[3].job_id = dcalls[1].job_id
  /\ dcalls[3].ret.artifacts \in dirs

\* C20: the per-job event queue of the in-memory fallback is bounded: the
\* number of undelivered events never exceeds a fixed capacity, and a
\* publish to a full queue applies a drop policy instead of growing the
\* queue.  For any capacity smaller than the number of events a job can
\* publish, the queue therefore never holds them all.
C20_QueueBounded ==
  \E capacity \in 0..(MaxLocalEvents - 1) :
    \A l \in LocalIds : Len(ljobs[l].queue) <= capacity

\* C21: a stream that waits for its next bus message is suspended
\* cooperatively: while it waits, another open stream of the process whose
\* consumer asks for the next chunk can go on, and relay what was published
\* on its own channel.
C21_WaitingStreamYieldsLoop ==
  \A s \in Streams, t \in Streams :
    ( /\ s # t
      /\ spc[s] = "get_message" /\ inbox[s] = << >>
      /\ spc[t] \in Suspended ) =>
      ENABLED resume(t)

\* the frames a connection has been or will be given: relayed, half
\* relayed, and the messages still unread
Arrived(s) ==
  LET unread == SelectSeq(inbox[s], LAMBDA m : m.type = "message") IN
  Relayed(s)
    \o (IF spc[s] = "yield_event"
          THEN << [event |-> cur[s].event, data |-> json_dumps(cur[s].data)] >>
          ELSE << >>)
    \o [i \in 1..Len(unread) |->
          [event |-> json_loads(unread[i].data).event,
           data |-> json_dumps(json_loads(unread[i].data).data)]]

\* C22: channels and cancel flags are isolated per job id, for two jobs
\* running at the same time: what reaches a stream is the events of its own
\* job's channel and nothing else (while it is subscribed: all of them since
\* the subscription; an artifact it carries points into its own job), and a
\* checkpoint has seen a flag only for the job the cancel request named.
C22_PerJobIsolation ==
  /\ \A s \in Streams :
       sjob[s] \in Jobs =>
         LET j == sjob[s]
             a == Arrived(s) IN
         /\ subAt[s] + Len(a) <= Len(published[j])
         /\ \A i \in 1..Len(a) :
              /\ a[i] = FrameOf(j, subAt[s] + i)
              /\ a[i].event = "artifact" => json_loads(a[i].data).href[2] = j
         /\ subOpen[s] => subAt[s] + Len(a) = Len(published[j])
  /\ \A j \in Jobs :
       seen[j].at # 0 => reply.cancel.request = [job_id |-> j]

\* the first job was stopped by its second checkpoint while the second job
\* ran to the end, and each stream has closed on the done of its own job,
\* the second one after relaying the artifact
C22_Witness ==
  /\ seen["j1"].at = 2
  /\ pc["j1"] = "finished" /\ pc["j2"] = "finished"
  /\ Len(artifacts["j2"]) = 1
  /\ sexit["s1"] = "done" /\ sexit["s2"] = "done"
  /\ \E i \in 1..Len(frames["s2"]) : frames["s2"][i].event = "artifact"
  /\ \A i \in 1..Len(frames["s1"]) : frames["s1"][i].event # "artifact"

\* the positions of the progress events on a job's channel
ProgressAt(j) == { i \in 1..Len(published[j]) : Events(j)[i].event = "progress" }

C24_DoneWhateverOutcome ==
  \A j \in Jobs :
    pc[j] \in {"finished", "failed"} =>
      /\ DoneCount(j) >= 1
      /\ \A s \in Streams :
           (sjob[s] = j /\ subAt[s] = 0 /\ subOpen[s]) =>
             \E i \in 1..Len(Arrived(s)) : Arrived(s)[i].event = "done"

\* the job has written no artifact file and published no artifact event
NoArtifact(j) ==
  /\ files[j] = {}
  /\ \A i \in 1..Len(published[j]) : Events(j)[i].event # "artifact"

\* C25: a cancel request issued for a job before the pipeline's final
\* checkpoint, also while the job waits in the queue, results in the job
\* writing no artifact file and publishing no artifact event.
C25_EarlyCancelNoArtifacts ==
  \A j \in Jobs :
    (reply.cancel.status = 200 /\ reply.cancel.request = [job_id |-> j]) =>
      NoArtifact(j)

\* the data of the artifact events published on a job's channel, in order
ArtifactEvents(j) ==
  LET ev == SelectSeq(Events(j), LAMBDA e : e.event = "artifact") IN
  [i \in 1..Len(ev) |-> ev[i].data]

\* C26: an artifact event is published only after its file has been written
\* under the job's artifacts directory; there is one artifact event per file
\* written (the file just written, not yet announced, apart); and the
\* artifacts list of the harness's done event is the sequence of artifact
\* events published during the run.
C26_ArtifactEventsMatchFiles ==
  \A j \in Jobs :
    LET a == ArtifactEvents(j) IN
    /\ \A i \in 1..Len(a) :
         /\ a[i].href[4] \in files[j]
         /\ a[i].href[2] = j
         /\ \A k \in 1..Len(a) : a[k].href = a[i].href => k = i
    /\ Cardinality(files[j]) = Len(a) + (IF pc[j] = "emit_artifact" THEN 1 ELSE 0)
    /\ files[j] # {} => << JOBS_DIR, DEFAULT_TENANT, j, "artifacts" >> \in dirs
    /\ pc[j] = "finished" =>
         /\ LastEvent(j).event = "done"
         /\ LastEvent(j).data.artifacts = a

\* a run with two outputs has finished: two files, two artifact events, and
\* a done that lists both
C26_Witness ==
  \E j \in Jobs :
    /\ pc[j] = "finished"
    /\ Cardinality(files[j]) = 2
    /\ Len(ArtifactEvents(j)) = 2
    /\ Len(LastEvent(j).data.artifacts) = 2

\* C27: in the in-memory fallback the done frame is the last frame sse_iter
\* yields for a job: whatever the interleaving of publish, set_error and
\* mark_done calls with the consumer, no frame follows the first done frame
\* (and sse_iter ends once done is set and the queue is drained).
C27_LocalDoneIsLast ==
  \A c \in Consumers :
    \A i \in 1..Len(iters[c].frames) :
      iters[c].frames[i].event = "done" => i = Len(iters[c].frames)

\* the done events waiting in a LocalJob's queue
QueuedDone(l) == SelectSeq(ljobs[l].queue, LAMBDA e : e[1] = "done")

\* C28: whatever the sequence of set_error and mark_done calls, at most one
\* done event is enqueued for a LocalJob, and its ok field is false exactly
\* when an error was recorded for the job.
C28_LocalSingleDone ==
  \A l \in LocalIds :
    /\ Len(QueuedDone(l)) <= 1
    /\ \A i \in 1..Len(QueuedDone(l)) :
         QueuedDone(l)[i][2].ok = (ljobs[l].error = NONE)

\* s is a suffix of t
IsSuffix(s, t) ==
  /\ Len(s) <= Len(t)
  /\ \A i \in 1..Len(s) : s[i] = t[Len(t) - Len(s) + i]

\* C29: two sse_iter consumers open on the same LocalJob each receive every
\* event published for it, so that what the later one has received is the
\* end of what the earlier one has received once the queue is drained; and
\* the job stays registered for a consumer that is still reading, whether
\* or not the other one has ended.
C29_LocalFanOut ==
  \A c, d \in Consumers :
    (c # d /\ iters[c].pc = "loop" /\ iters[d].job = iters[c].job) =>
      /\ iters[c].job \in _jobs
      /\ (iters[d].pc = "loop" /\ ljobs[iters[c].job].queue = << >>) =>
           \/ IsSuffix(iters[c].frames, iters[d].frames)
           \/ IsSuffix(iters[d].frames, iters[c].frames)

\* the run of a flow is over: it was kicked off and no method is due
FlowOver(j) == flows[j].kicked /\ flows[j].pending = {}

\* the file names a flow has written under its artifacts directory
FlowFiles(j) == { p[Len(p)] : p \in flows[j].files }

\* C30: every run of WorkshopBuildFlow reaches the export step: whatever
\* confidence plan_and_research produced, once the run is over
\* write_and_format and export_artifacts have both run, the manuscript and
\* the export artifacts are written, and progress 100 has been emitted.
C30_EveryRunExports ==
  \A j \in Jobs :
    FlowOver(j) =>
      /\ {"write_and_format", "export_artifacts"} \subseteq flows[j].ran
      /\ {"manuscript.md", "print.pdf", "book.epub", "site.zip"} \subseteq FlowFiles(j)
      /\ \E i \in 1..Len(flows[j].emitted) :
           /\ flows[j].emitted[i].event = "progress"
           /\ flows[j].emitted[i].data.pct = 100

====
